---- MODULE Spec2Model ----
(***************************************************************************)
(* State-machine model of the three verifyeye front-end pages:             *)
(*   generation    src/public/generate.js                                  *)
(*   detection     src/unnamed/part_000                                    *)
(*   summary       src/unnamed/part_001                                    *)
(* Each page is a separate script with its own globals, so a behaviour is  *)
(* the life of ONE page: Init picks the page (flow) and it never changes.  *)
(*                                                                         *)
(* Text is modelled as a sequence of string tokens (textContent), so       *)
(* concatenation is \o and number formatting is done by ToString.          *)
(* A textarea value is [lead, body, trail]: the number of leading          *)
(* whitespace characters, the length of the whitespace-delimited body and  *)
(* the number of trailing whitespace characters.                           *)
(***************************************************************************)
EXTENDS Integers, Sequences, FiniteSets, TLC

VARIABLES
    flow,             \* which page is loaded
    firebaseDefined,  \* typeof firebase !== 'undefined' && firebase.firestore
    value,            \* promptText.value / detectText.value / summaryText.value
    charCount,        \* charCount.textContent (detection, summary)
    reader,           \* FileReader reads started and not yet loaded (detection)
    errorMsg,         \* [text, show]: errorMsg.textContent, classList has 'show'
    results,          \* results.classList has 'show'
    loading,          \* loading.style.display
    disabled,         \* control -> .disabled
    dom,              \* result element -> textContent / style value
    inflight,         \* handler invocations suspended at an await
    dbAdds,           \* db.collection('results').add promises not yet settled
    outcome,          \* history: how the latest submit-handler step ended
    clipboard,        \* system clipboard content
    clipPending,      \* navigator.clipboard.writeText promises not yet settled
    copyBtn,          \* [text, copied]: copyBtn.textContent, classList has 'copied'
    timers            \* pending setTimeout callbacks: remaining ms, in creation order

vars == <<flow, firebaseDefined, value, charCount, reader, errorMsg, results,
          loading, disabled, dom, inflight, dbAdds, outcome, clipboard,
          clipPending, copyBtn, timers>>

pageVars == <<flow, firebaseDefined>>
copyVars == <<clipboard, clipPending, copyBtn, timers>>

-----------------------------------------------------------------------------
(* Bounds of the model *)

MaxInflight == 2
MaxPendingAdds == 1
MaxClipPending == 1
MaxTimers == 2
MaxConfidenceTenths == 1000

-----------------------------------------------------------------------------
(* Program constants *)

promptMinLength == 10
detectMinLength == 50
summaryMinLength == 100
inputLimit == 500
copiedDelay == 2000

Flows == {"generation", "detection", "summary"}

-----------------------------------------------------------------------------
(* String and number primitives *)

\* String.prototype.trim: drops leading and trailing whitespace
trimBad(v) == v
trim(v) == [lead |-> 0, body |-> v.body, trail |-> 0]

\* String.prototype.length
length(v) == v.lead + v.body + v.trail

\* String.prototype.substring(0, n) on a trimmed text
substring0(v, n) == IF v.body <= n THEN v ELSE [v EXCEPT !.body = n]

\* Math.round(num / den) for den > 0: floor(x + 1/2)
MathRound(num, den) == (2 * num + den) \div (2 * den)

\* Number.prototype.toFixed(2) of n100 / 100, n100 >= 0
toFixed2(n100) ==
    <<ToString(n100 \div 100), ".",
      ToString((n100 % 100) \div 10), ToString(n100 % 10)>>

-----------------------------------------------------------------------------
(* Page structure *)

Controls(f) ==
    IF f = "generation" THEN {"generateBtn", "regenerateBtn"}
    ELSE IF f = "detection" THEN {"detectBtn"}
    ELSE {"summarizeBtn"}

Elements(f) ==
    IF f = "generation" THEN {"generatedText", "wordCount", "tokensUsed"}
    ELSE IF f = "detection"
    THEN {"confidenceValue", "verdict", "verdict.color",
          "confidenceFill.width", "confidenceFill", "confidenceFill.background",
          "analysisDetails"}
    ELSE {"summaryResult", "originalWords", "summaryWords", "compressionRatio"}

copyLabel(f) ==
    IF f = "generation" THEN "Copy Text"
    ELSE IF f = "detection" THEN "Copy Results"
    ELSE "Copy Summary"

genericError(f) ==
    IF f = "generation" THEN "Failed to generate text. Please try again."
    ELSE IF f = "detection"
    THEN "An error occurred while analyzing the text. Please try again."
    ELSE "Failed to generate summary. Please try again."

minLength(f) ==
    IF f = "generation" THEN promptMinLength
    ELSE IF f = "detection" THEN detectMinLength
    ELSE summaryMinLength

-----------------------------------------------------------------------------
(* Inputs the environment can supply *)

\* textarea contents around the page's minimum length, with and without
\* surrounding whitespace
InputValues(f) ==
    { [lead |-> l, body |-> b, trail |-> 0] :
        l \in {0, 1}, b \in {0, minLength(f) - 1, minLength(f)} }

\* parsed response bodies; null is JSON null
GenData ==
    { [null |-> n, generatedText |-> g[1], wordCount |-> g[2], tokensUsed |-> g[3]] :
        n \in {FALSE}, g \in {<<"alpha", 1, 7>>, <<"beta gamma", 2, 9>>} }
    \cup { [null |-> TRUE, generatedText |-> "", wordCount |-> 0, tokensUsed |-> 0] }

NoNumber == [type |-> "undefined", n100 |-> 0]

DetData ==
    { [null |-> FALSE, confidence10 |-> c, isAI |-> (c >= 500),
       perplexity |-> p, burstiness |-> NoNumber] :
        c \in {294, 295, 700},
        p \in {NoNumber, [type |-> "number", n100 |-> 1234]} }
    \cup { [null |-> FALSE, confidence10 |-> 700, isAI |-> TRUE,
            perplexity |-> [type |-> "number", n100 |-> 0],
            burstiness |-> [type |-> "number", n100 |-> 50]],
           [null |-> FALSE, confidence10 |-> 700, isAI |-> TRUE,
            perplexity |-> [type |-> "string", n100 |-> 0],
            burstiness |-> NoNumber],
           [null |-> TRUE, confidence10 |-> 0, isAI |-> FALSE,
            perplexity |-> NoNumber, burstiness |-> NoNumber] }

SumData ==
    { [null |-> FALSE, summary |-> s[1], originalWords |-> s[2],
       summaryWords |-> s[3], compressionRatio1000 |-> s[4]] :
        s \in {<<"short", 40, 10, 250>>, <<"shorter", 40, 5, 125>>} }
    \cup { [null |-> TRUE, summary |-> "", originalWords |-> 0,
            summaryWords |-> 0, compressionRatio1000 |-> 0] }

Data(f) ==
    IF f = "generation" THEN GenData
    ELSE IF f = "detection" THEN DetData
    ELSE SumData

\* how the awaited fetch settles: rejection, or a response with response.ok
FetchOutcomes == {"reject", "notok", "ok"}

\* how db.collection('results').add(...) behaves when reached: it returns a
\* promise, or the statement throws synchronously (db not defined,
\* firebase.firestore() throwing, add() refusing the document)
SaveOutcomes == {"promise", "throws"}

-----------------------------------------------------------------------------
(* showError / hideError, identical in the three scripts *)

showErrorBad(message) == [text |-> message, show |-> errorMsg.show]
showError(message) == [text |-> message, show |-> TRUE]

hideError == [errorMsg EXCEPT !.show = FALSE]

-----------------------------------------------------------------------------
(* Initial state: the page as loaded *)

Init ==
    /\ flow \in Flows
    /\ firebaseDefined \in BOOLEAN
    /\ value = [lead |-> 0, body |-> 0, trail |-> 0]
    /\ charCount = 0
    /\ reader = <<>>
    /\ errorMsg = [text |-> "", show |-> FALSE]
    /\ results = FALSE
    /\ loading = ""
    /\ disabled = [c \in Controls(flow) |-> FALSE]
    /\ dom = [e \in Elements(flow) |-> <<>>]
    /\ inflight = <<>>
    /\ dbAdds = <<>>
    /\ outcome = "none"
    /\ clipboard = <<>>
    /\ clipPending = <<>>
    /\ copyBtn = [text |-> copyLabel(flow), copied |-> FALSE]
    /\ timers = <<>>

-----------------------------------------------------------------------------
(* Result rendering.  Each displayResults yields the DOM after the call and *)
(* whether the call threw (a TypeError on a null body, or on .toFixed of a  *)
(* value that is not a number); statements before the throw have acted.     *)

displayResults_generation(data) ==
    IF data.null
    THEN [dom |-> dom, results |-> results, threw |-> TRUE]
    ELSE [dom |-> [dom EXCEPT !["generatedText"] = <<data.generatedText>>,
                              !["wordCount"] = <<ToString(data.wordCount)>>,
                              !["tokensUsed"] = <<ToString(data.tokensUsed)>>],
          results |-> TRUE,
          threw |-> FALSE]

\* the if / else-if / else chain that colours the confidence bar
barColorBad(confidence) ==
    IF confidence <= 30 THEN "#4ade80"
    ELSE IF confidence < 70 THEN "#fbbf24"
    ELSE "#ef4444"
barColor(confidence) ==
    IF confidence < 30 THEN "#4ade80"
    ELSE IF confidence < 70 THEN "#fbbf24"
    ELSE "#ef4444"

\* truthiness of an optional numeric field of the response
truthy(x) == x.type = "string" \/ (x.type = "number" /\ x.n100 # 0)

displayResults_detection(data) ==
    IF data.null
    THEN [dom |-> dom, results |-> results, threw |-> TRUE]
    ELSE
    LET confidence == MathRound(data.confidence10, 10)
        isAI == data.isAI
        pct == <<ToString(confidence), "%">>
        dom1 == [dom EXCEPT
                   !["confidenceValue"] = pct,
                   !["verdict"] = <<IF isAI THEN "(robot) AI Generated"
                                            ELSE "(person) Human Written">>,
                   !["verdict.color"] = <<IF isAI THEN "#ef4444" ELSE "#4ade80">>,
                   !["confidenceFill.width"] = pct,
                   !["confidenceFill"] = pct,
                   !["confidenceFill.background"] = <<barColor(confidence)>>]
        details1 == <<"Detection Confidence: ", ToString(confidence), "%\n\n",
                      "Verdict: ",
                      IF isAI THEN "This text appears to be AI-generated"
                              ELSE "This text appears to be human-written",
                      "\n\n">>
        details2 == IF truthy(data.perplexity)
                    THEN details1 \o <<"Perplexity Score: ">>
                           \o toFixed2(data.perplexity.n100) \o <<"\n">>
                    ELSE details1
        details3 == IF truthy(data.burstiness)
                    THEN details2 \o <<"Burstiness Score: ">>
                           \o toFixed2(data.burstiness.n100) \o <<"\n">>
                    ELSE details2
        details == details3 \o
           <<"\nNote: This is a probabilistic analysis and may not be 100% accurate.">>
    IN IF \/ (truthy(data.perplexity) /\ data.perplexity.type # "number")
          \/ (truthy(data.burstiness) /\ data.burstiness.type # "number")
       THEN [dom |-> dom1, results |-> results, threw |-> TRUE]
       ELSE [dom |-> [dom1 EXCEPT !["analysisDetails"] = details],
             results |-> TRUE,
             threw |-> FALSE]

displayResults_summary(data) ==
    IF data.null
    THEN [dom |-> dom, results |-> results, threw |-> TRUE]
    ELSE [dom |-> [dom EXCEPT
                     !["summaryResult"] = <<data.summary>>,
                     !["originalWords"] = <<ToString(data.originalWords)>>,
                     !["summaryWords"] = <<ToString(data.summaryWords)>>,
                     !["compressionRatio"] =
                        <<ToString(MathRound(data.compressionRatio1000 * 100, 1000)),
                          "%">>],
          results |-> TRUE,
          threw |-> FALSE]

-----------------------------------------------------------------------------
(* Audit logging.  Each saveToFirestore yields the pending add() promises   *)
(* after the call and whether the call threw synchronously.                 *)

saveToFirestore_generation(prompt, result, save) ==
    IF firebaseDefined
    THEN IF save = "promise"
         THEN [adds |-> Append(dbAdds, [type |-> "generation", input |-> prompt,
                                        output |-> result]),
               threw |-> FALSE]
         ELSE [adds |-> dbAdds, threw |-> TRUE]
    ELSE [adds |-> dbAdds, threw |-> FALSE]

saveToFirestore_detection(text, result, save) ==
    IF firebaseDefined
    THEN IF save = "promise"
         THEN [adds |-> Append(dbAdds, [type |-> "detection",
                                        input |-> substring0(text, inputLimit),
                                        output |-> result]),
               threw |-> FALSE]
         ELSE [adds |-> dbAdds, threw |-> TRUE]
    ELSE [adds |-> dbAdds, threw |-> FALSE]

saveToFirestore_summary(text, result, save) ==
    IF firebaseDefined
    THEN IF save = "promise"
         THEN [adds |-> Append(dbAdds, [type |-> "summary",
                                        input |-> substring0(text, inputLimit),
                                        output |-> result]),
               threw |-> FALSE]
         ELSE [adds |-> dbAdds, threw |-> TRUE]
    ELSE [adds |-> dbAdds, threw |-> FALSE]

-----------------------------------------------------------------------------
(* The submit handlers.  A handler that passed validation is suspended at  *)
(* "await fetch" (pc = "fetch") and, after a response with response.ok, at  *)
(* "await response.json()" (pc = "json").  Its record keeps the captured    *)
(* input and, as a history value, the result elements as they were when    *)
(* the handler was invoked.                                                 *)

RemoveAt(s, i) == [j \in 1..(Len(s) - 1) |-> IF j < i THEN s[j] ELSE s[j + 1]]

\* validation failed: showError(message); return
reject(message) ==
    /\ errorMsg' = showError(message)
    /\ outcome' = "invalid"
    /\ UNCHANGED <<results, loading, disabled, inflight>>

\* hideError(); hide results; show loading; disable the controls; await fetch
dispatchBad(text, controls) ==
    /\ errorMsg' = hideError
    /\ results' = FALSE
    /\ loading' = "block"
    /\ disabled' = [c \in Controls(flow) |->
                      IF c = "regenerateBtn" THEN disabled[c]
                      ELSE IF c \in controls THEN TRUE ELSE disabled[c]]
    /\ inflight' = Append(inflight,
                          [pc |-> "fetch", text |-> text,
                           prior |-> [dom |-> dom, results |-> results]])
    /\ outcome' = "dispatched"
dispatch(text, controls) ==
    /\ errorMsg' = hideError
    /\ results' = FALSE
    /\ loading' = "block"
    /\ disabled' = [c \in Controls(flow) |->
                      IF c \in controls THEN TRUE ELSE disabled[c]]
    /\ inflight' = Append(inflight,
                          [pc |-> "fetch", text |-> text,
                           prior |-> [dom |-> dom, results |-> results]])
    /\ outcome' = "dispatched"

\* finally { hide loading; enable the controls }, and the handler returns
finallyBlockBad(i, controls) ==
    /\ loading' = "none"
    /\ disabled' = disabled
    /\ inflight' = RemoveAt(inflight, i)
finallyBlock(i, controls) ==
    /\ loading' = "none"
    /\ disabled' = [c \in Controls(flow) |->
                      IF c \in controls THEN FALSE ELSE disabled[c]]
    /\ inflight' = RemoveAt(inflight, i)

\* the awaited fetch settles: a rejection or a response that is not ok goes
\* to catch and finally, an ok response goes on to await response.json()
afterFetch(i, settled, message, controls) ==
    /\ i \in 1..Len(inflight)
    /\ inflight[i].pc = "fetch"
    /\ IF settled = "ok"
       THEN /\ inflight' = [inflight EXCEPT ![i].pc = "json"]
            /\ UNCHANGED <<errorMsg, loading, disabled>>
       ELSE /\ errorMsg' = showError(message)
            /\ finallyBlock(i, controls)
    /\ outcome' = IF settled = "ok" THEN "fetch-ok"
                  ELSE IF settled = "notok" THEN "fetch-notok"
                  ELSE "fetch-reject"
    /\ UNCHANGED <<results, dom, dbAdds>>

\* the awaited response.json() settles: displayResults(data), then
\* saveToFirestore(text, data); whatever throws goes to catch; then finally.
\* d and s are the outcomes of the two calls.
afterJsonBad(i, body, d, s, message, controls) ==
    LET rendered == body.parsed /\ ~d.threw
    IN /\ i \in 1..Len(inflight)
       /\ inflight[i].pc = "json"
       /\ dom' = IF body.parsed THEN d.dom ELSE dom
       /\ results' = IF body.parsed THEN d.results ELSE results
       /\ dbAdds' = IF body.parsed THEN s.adds ELSE dbAdds
       /\ Len(dbAdds') <= MaxPendingAdds
       /\ errorMsg' = IF rendered /\ ~s.threw THEN errorMsg ELSE showError(message)
       /\ outcome' = IF ~body.parsed THEN "json-reject"
                     ELSE IF d.threw THEN "render-threw"
                     ELSE IF s.threw THEN "save-threw"
                     ELSE "done"
       /\ finallyBlock(i, controls)
afterJson(i, body, d, s, message, controls) ==
    LET rendered == body.parsed /\ ~d.threw
    IN /\ i \in 1..Len(inflight)
       /\ inflight[i].pc = "json"
       /\ dom' = IF body.parsed THEN d.dom ELSE dom
       /\ results' = IF body.parsed THEN d.results ELSE results
       /\ dbAdds' = IF rendered THEN s.adds ELSE dbAdds
       /\ Len(dbAdds') <= MaxPendingAdds
       /\ errorMsg' = IF rendered /\ ~s.threw THEN errorMsg ELSE showError(message)
       /\ outcome' = IF ~body.parsed THEN "json-reject"
                     ELSE IF d.threw THEN "render-threw"
                     ELSE IF s.threw THEN "save-threw"
                     ELSE "done"
       /\ finallyBlock(i, controls)

JsonOutcomes(f) ==
    { [parsed |-> TRUE, data |-> d] : d \in Data(f) }
    \cup { [parsed |-> FALSE, data |-> CHOOSE d \in Data(f) : d.null] }

(* generation: src/public/generate.js *)

performGeneration(btn) ==
    /\ flow = "generation"
    /\ ~disabled[btn]
    /\ Len(inflight) < MaxInflight
    /\ LET prompt == trim(value)
       IN IF length(prompt) = 0
          THEN reject("Please enter a prompt")
          ELSE IF length(prompt) < promptMinLength
          THEN reject("Prompt must be at least 10 characters")
          ELSE dispatch(prompt, {"generateBtn", "regenerateBtn"})
    /\ UNCHANGED <<pageVars, value, charCount, reader, dom, dbAdds, copyVars>>

performGeneration_fetch(i, settled) ==
    /\ flow = "generation"
    /\ afterFetch(i, settled, "Failed to generate text. Please try again.",
                  {"generateBtn", "regenerateBtn"})
    /\ UNCHANGED <<pageVars, value, charCount, reader, copyVars>>

performGeneration_json(i, body, save) ==
    /\ flow = "generation"
    /\ afterJson(i, body,
                 displayResults_generation(body.data),
                 saveToFirestore_generation(inflight[i].text, body.data, save),
                 "Failed to generate text. Please try again.",
                 {"generateBtn", "regenerateBtn"})
    /\ UNCHANGED <<pageVars, value, charCount, reader, copyVars>>

promptText_input(v) ==
    /\ flow = "generation"
    /\ value' = v
    /\ UNCHANGED <<pageVars, charCount, reader, errorMsg, results, loading,
                   disabled, dom, inflight, dbAdds, outcome, copyVars>>

(* detection: src/unnamed/part_000 *)

detectBtn_click ==
    /\ flow = "detection"
    /\ ~disabled["detectBtn"]
    /\ Len(inflight) < MaxInflight
    /\ LET text == trim(value)
       IN IF length(text) = 0
          THEN reject("Please enter some text to analyze")
          ELSE IF length(text) < detectMinLength
          THEN reject("Text must be at least 50 characters long")
          ELSE dispatch(text, {"detectBtn"})
    /\ UNCHANGED <<pageVars, value, charCount, reader, dom, dbAdds, copyVars>>

detectBtn_fetch(i, settled) ==
    /\ flow = "detection"
    /\ afterFetch(i, settled,
                  "An error occurred while analyzing the text. Please try again.",
                  {"detectBtn"})
    /\ UNCHANGED <<pageVars, value, charCount, reader, copyVars>>

detectBtn_json(i, body, save) ==
    /\ flow = "detection"
    /\ afterJson(i, body,
                 displayResults_detection(body.data),
                 saveToFirestore_detection(inflight[i].text, body.data, save),
                 "An error occurred while analyzing the text. Please try again.",
                 {"detectBtn"})
    /\ UNCHANGED <<pageVars, value, charCount, reader, copyVars>>

detectText_input(v) ==
    /\ flow = "detection"
    /\ value' = v
    /\ charCount' = length(v)
    /\ UNCHANGED <<pageVars, reader, errorMsg, results, loading, disabled, dom,
                   inflight, dbAdds, outcome, copyVars>>

\* a file chosen in the upload control: none, a plain-text file, another type
Files ==
    { [present |-> TRUE, type |-> "text/plain",
       content |-> [lead |-> 0, body |-> detectMinLength, trail |-> 1]],
      [present |-> TRUE, type |-> "image/png",
       content |-> [lead |-> 0, body |-> detectMinLength, trail |-> 0]],
      [present |-> FALSE, type |-> "",
       content |-> [lead |-> 0, body |-> 0, trail |-> 0]] }

fileUpload_change(file) ==
    /\ flow = "detection"
    /\ IF file.present /\ file.type = "text/plain"
       THEN /\ reader = <<>>
            /\ reader' = <<file.content>>
            /\ UNCHANGED errorMsg
       ELSE /\ errorMsg' = showError("Please upload a .txt file")
            /\ UNCHANGED reader
    /\ UNCHANGED <<pageVars, value, charCount, results, loading, disabled, dom,
                   inflight, dbAdds, outcome, copyVars>>

reader_onload ==
    /\ flow = "detection"
    /\ reader # <<>>
    /\ value' = Head(reader)
    /\ charCount' = length(Head(reader))
    /\ reader' = Tail(reader)
    /\ UNCHANGED <<pageVars, errorMsg, results, loading, disabled, dom,
                   inflight, dbAdds, outcome, copyVars>>

(* summary: src/unnamed/part_001 *)

summarizeBtn_click ==
    /\ flow = "summary"
    /\ ~disabled["summarizeBtn"]
    /\ Len(inflight) < MaxInflight
    /\ LET text == trim(value)
       IN IF length(text) = 0
          THEN reject("Please enter text to summarize")
          ELSE IF length(text) < summaryMinLength
          THEN reject("Text must be at least 100 characters for meaningful summarization")
          ELSE dispatch(text, {"summarizeBtn"})
    /\ UNCHANGED <<pageVars, value, charCount, reader, dom, dbAdds, copyVars>>

summarizeBtn_fetch(i, settled) ==
    /\ flow = "summary"
    /\ afterFetch(i, settled, "Failed to generate summary. Please try again.",
                  {"summarizeBtn"})
    /\ UNCHANGED <<pageVars, value, charCount, reader, copyVars>>

summarizeBtn_json(i, body, save) ==
    /\ flow = "summary"
    /\ afterJson(i, body,
                 displayResults_summary(body.data),
                 saveToFirestore_summary(inflight[i].text, body.data, save),
                 "Failed to generate summary. Please try again.",
                 {"summarizeBtn"})
    /\ UNCHANGED <<pageVars, value, charCount, reader, copyVars>>

summaryText_input(v) ==
    /\ flow = "summary"
    /\ value' = v
    /\ charCount' = length(v)
    /\ UNCHANGED <<pageVars, reader, errorMsg, results, loading, disabled, dom,
                   inflight, dbAdds, outcome, copyVars>>

(* the promise of db.collection('results').add settles: the record is      *)
(* stored, or the rejection goes to console.error; the page is untouched    *)

add_settled ==
    /\ dbAdds # <<>>
    /\ dbAdds' = Tail(dbAdds)
    /\ UNCHANGED <<pageVars, value, charCount, reader, errorMsg, results,
                   loading, disabled, dom, inflight, outcome, copyVars>>

-----------------------------------------------------------------------------
(* Copy to clipboard *)

tickMs == copiedDelay \div 2

\* the argument of navigator.clipboard.writeText in each script
copyTextBad(f) ==
    IF f = "generation" THEN dom["wordCount"]
    ELSE IF f = "detection"
    THEN <<"AI Detection Results\n\n">> \o dom["analysisDetails"]
    ELSE dom["summaryResult"]
copyText(f) ==
    IF f = "generation" THEN dom["generatedText"]
    ELSE IF f = "detection"
    THEN <<"AI Detection Results\n\n">> \o dom["analysisDetails"]
    ELSE dom["summaryResult"]

submitVars == <<value, charCount, reader, errorMsg, results, loading, disabled,
                dom, inflight, dbAdds, outcome>>

copyBtn_click ==
    /\ Len(clipPending) < MaxClipPending
    /\ clipPending' = Append(clipPending, copyText(flow))
    /\ UNCHANGED <<pageVars, submitVars, clipboard, copyBtn, timers>>

\* the write succeeded: the .then callback runs
copyBtn_thenBad ==
    /\ clipPending # <<>>
    /\ Len(timers) < MaxTimers
    /\ clipboard' = Head(clipPending)
    /\ clipPending' = Tail(clipPending)
    /\ copyBtn' = [text |-> "(check) Copied!", copied |-> TRUE]
    /\ timers' = timers
    /\ UNCHANGED <<pageVars, submitVars>>
copyBtn_then ==
    /\ clipPending # <<>>
    /\ Len(timers) < MaxTimers
    /\ clipboard' = Head(clipPending)
    /\ clipPending' = Tail(clipPending)
    /\ copyBtn' = [text |-> "(check) Copied!", copied |-> TRUE]
    /\ timers' = Append(timers, copiedDelay)
    /\ UNCHANGED <<pageVars, submitVars>>

\* the write was denied: the promise rejects and nothing handles it
copyBtn_denied ==
    /\ clipPending # <<>>
    /\ clipPending' = Tail(clipPending)
    /\ UNCHANGED <<pageVars, submitVars, clipboard, copyBtn, timers>>

\* the setTimeout callback of the oldest successful copy runs
copyBtn_timeout ==
    /\ timers # <<>>
    /\ Head(timers) = 0
    /\ copyBtn' = [text |-> copyLabel(flow), copied |-> FALSE]
    /\ timers' = Tail(timers)
    /\ UNCHANGED <<pageVars, submitVars, clipboard, clipPending>>

\* time passes
Tick ==
    /\ \E k \in 1..Len(timers) : timers[k] > 0
    /\ timers' = [k \in 1..Len(timers) |->
                    IF timers[k] > tickMs THEN timers[k] - tickMs ELSE 0]
    /\ UNCHANGED <<pageVars, submitVars, clipboard, clipPending, copyBtn>>

-----------------------------------------------------------------------------
(* Specifications *)

\* the submit flows of the page
Next ==
    \/ \E b \in Controls(flow) : performGeneration(b)
    \/ \E i \in 1..Len(inflight), o \in FetchOutcomes : performGeneration_fetch(i, o)
    \/ \E i \in 1..Len(inflight), b \in JsonOutcomes(flow), s \in SaveOutcomes :
          performGeneration_json(i, b, s)
    \/ \E v \in InputValues(flow) : promptText_input(v)
    \/ detectBtn_click
    \/ \E i \in 1..Len(inflight), o \in FetchOutcomes : detectBtn_fetch(i, o)
    \/ \E i \in 1..Len(inflight), b \in JsonOutcomes(flow), s \in SaveOutcomes :
          detectBtn_json(i, b, s)
    \/ \E v \in InputValues(flow) : detectText_input(v)
    \/ \E f \in Files : fileUpload_change(f)
    \/ reader_onload
    \/ summarizeBtn_click
    \/ \E i \in 1..Len(inflight), o \in FetchOutcomes : summarizeBtn_fetch(i, o)
    \/ \E i \in 1..Len(inflight), b \in JsonOutcomes(flow), s \in SaveOutcomes :
          summarizeBtn_json(i, b, s)
    \/ \E v \in InputValues(flow) : summaryText_input(v)
    \/ add_settled

Spec == Init /\ [][Next]_vars

\* the copy affordance, over a page whose input is valid and which has no
\* logging client; the submit flows keep changing the displayed result
InitCopy ==
    /\ Init
    /\ ~firebaseDefined

\* response bodies of the copy specification: on the detection page one
\* confidence value with every shape of the optional fields
CopyOutcomes(f) ==
    { b \in JsonOutcomes(f) :
        (b.parsed /\ f = "detection") => b.data.confidence10 = 700 }

NextCopy ==
    \/ \E v \in {w \in InputValues(flow) : w.lead = 0 /\ w.body = minLength(flow)} :
          promptText_input(v) \/ detectText_input(v) \/ summaryText_input(v)
    \/ \E b \in Controls(flow) : performGeneration(b)
    \/ \E i \in 1..Len(inflight), o \in FetchOutcomes : performGeneration_fetch(i, o)
    \/ \E i \in 1..Len(inflight), b \in CopyOutcomes(flow) :
          performGeneration_json(i, b, "promise")
    \/ detectBtn_click
    \/ \E i \in 1..Len(inflight), o \in FetchOutcomes : detectBtn_fetch(i, o)
    \/ \E i \in 1..Len(inflight), b \in CopyOutcomes(flow) :
          detectBtn_json(i, b, "promise")
    \/ summarizeBtn_click
    \/ \E i \in 1..Len(inflight), o \in FetchOutcomes : summarizeBtn_fetch(i, o)
    \/ \E i \in 1..Len(inflight), b \in CopyOutcomes(flow) :
          summarizeBtn_json(i, b, "promise")
    \/ copyBtn_click
    \/ copyBtn_then
    \/ copyBtn_denied
    \/ copyBtn_timeout
    \/ Tick

SpecCopy == InitCopy /\ [][NextCopy]_vars

\* rendering of detection responses over the whole confidence range
RenderData ==
    { [null |-> FALSE, confidence10 |-> c, isAI |-> a,
       perplexity |-> NoNumber, burstiness |-> NoNumber] :
        c \in 0..MaxConfidenceTenths, a \in BOOLEAN }

InitRender ==
    /\ Init
    /\ flow = "detection"
    /\ ~firebaseDefined

NextRender ==
    \/ \E v \in {w \in InputValues(flow) : w.lead = 0 /\ w.body = minLength(flow)} :
          detectText_input(v)
    \/ detectBtn_click
    \/ \E i \in 1..Len(inflight), o \in FetchOutcomes : detectBtn_fetch(i, o)
    \/ \E i \in 1..Len(inflight), d \in RenderData :
          detectBtn_json(i, [parsed |-> TRUE, data |-> d], "promise")

SpecRender == InitRender /\ [][NextRender]_vars

-----------------------------------------------------------------------------
(* Vocabulary of the properties *)

\* length of the trimmed input, read off the representation of a value
TrimmedLength(v) == v.body

\* the minimum lengths the specification states
StatedMinimum(f) ==
    IF f = "generation" THEN 10 ELSE IF f = "detection" THEN 50 ELSE 100

\* a submit handler is invoked in this step
SubmitStep ==
    \/ \E b \in Controls(flow) : performGeneration(b)
    \/ detectBtn_click
    \/ summarizeBtn_click

\* a suspended handler runs to its end in this step
HandlerEnds == Len(inflight') < Len(inflight)

\* the handler that ends in this step
Ending(i) ==
    /\ i \in 1..Len(inflight)
    /\ inflight' = RemoveAt(inflight, i)

AllDisabled == \A c \in Controls(flow) : disabled[c]
AllEnabled == \A c \in Controls(flow) : ~disabled[c]

\* the element holding the result text of each page
ResultText(f) ==
    IF f = "generation" THEN dom["generatedText"]
    ELSE IF f = "detection" THEN dom["analysisDetails"]
    ELSE dom["summaryResult"]

\* the result elements as displayResults of a page leaves them
Rendering(f, data) ==
    IF f = "generation" THEN displayResults_generation(data)
    ELSE IF f = "detection" THEN displayResults_detection(data)
    ELSE displayResults_summary(data)

-----------------------------------------------------------------------------
(* C1: when a submit handler runs with an input whose trimmed length is     *)
(* below the page's minimum (10, 50, 100; the empty input included), it     *)
(* shows the inline error and returns: no request is issued and no audit    *)
(* record is written.                                                       *)
C1_ShortInputBlocked ==
    [][(SubmitStep /\ TrimmedLength(value) < StatedMinimum(flow))
         => /\ errorMsg'.show
            /\ inflight' = inflight
            /\ dbAdds' = dbAdds
            /\ loading' = loading]_vars

\* a whitespace-padded input one character short of the minimum was rejected
C1_Witness ==
    /\ outcome = "invalid"
    /\ value.lead = 1
    /\ TrimmedLength(value) = StatedMinimum(flow) - 1
    /\ errorMsg.show
    /\ inflight = <<>>

(* C2 as stated: after a response with a non-success status the generic     *)
(* error is shown and the result elements, the results panel included, are  *)
(* as they were before the submission started.                              *)
C2_Original ==
    [][\A i \in 1..Len(inflight) :
          (Ending(i) /\ outcome' = "fetch-notok")
            => /\ errorMsg' = [text |-> genericError(flow), show |-> TRUE]
               /\ dom' = inflight[i].prior.dom
               /\ results' = inflight[i].prior.results]_vars

(* C2 amended: after a response with a non-success status the generic       *)
(* error is shown, the output text, counters and confidence bar are as      *)
(* they were before the submission started, and the results panel is        *)
(* hidden, whether or not it was shown before.                              *)
C2_NonSuccessKeepsText ==
    [][\A i \in 1..Len(inflight) :
          (Ending(i) /\ outcome' = "fetch-notok")
            => /\ errorMsg' = [text |-> genericError(flow), show |-> TRUE]
               /\ dom' = inflight[i].prior.dom
               /\ results' = FALSE]_vars

\* a non-success response after an earlier result had been rendered
C2_Witness ==
    /\ outcome = "fetch-notok"
    /\ inflight = <<>>
    /\ errorMsg.show
    /\ ResultText(flow) # <<>>
    /\ ~results

(* C3 as stated: once a successful response has been rendered, a failure of *)
(* the audit-log step (client absent, store handle unavailable, write call  *)
(* throwing, write promise rejecting) leaves the displayed result as        *)
(* rendered and does not show the error message.                            *)
C3_AuditFailureSilent ==
    [][/\ \A i \in 1..Len(inflight) :
            (Ending(i) /\ outcome' \in {"done", "save-threw"})
              => /\ results'
                 /\ errorMsg' = errorMsg
       /\ Len(dbAdds') < Len(dbAdds)
              => UNCHANGED <<dom, results, errorMsg>>]_vars

(* C4 as stated: a click on the copy button hands the clipboard exactly     *)
(* the result text the page displays.                                       *)
C4_Original ==
    [][Len(clipPending') > Len(clipPending)
         => clipPending'[Len(clipPending')] = ResultText(flow)]_vars

(* C4 amended: a click on the copy button hands the clipboard exactly the   *)
(* result text of the page at the time of the click on the generation and   *)
(* summary pages, and that text prefixed by the heading                     *)
(* "AI Detection Results" and a blank line on the detection page; a         *)
(* successful write stores exactly what was handed over.                    *)
C4_CopiesResultText ==
    [][/\ Len(clipPending') > Len(clipPending)
            => clipPending'[Len(clipPending')] =
                 IF flow = "detection"
                 THEN <<"AI Detection Results\n\n">> \o ResultText(flow)
                 ELSE ResultText(flow)
       /\ clipboard' # clipboard => clipboard' = Head(clipPending)]_vars

\* a copy clicked while a later request is in flight and a result exists
C4_Witness ==
    /\ clipPending # <<>>
    /\ ResultText(flow) # <<>>
    /\ inflight # <<>>
    /\ clipboard # <<>>
    /\ clipboard # Head(clipPending)

(* C5: a successful clipboard write shows the 'Copied' label and style and  *)
(* arms a 2000 ms timer; the timer runs only once its 2000 ms have elapsed  *)
(* and puts back the original label and style; whenever no timer is         *)
(* pending, whatever clicks and timers came before, the button has its      *)
(* original label and no 'copied' style; a denied write changes neither.    *)
C5_CopyLabelRestored ==
    /\ [](timers = <<>> =>
            copyBtn = [text |-> IF flow = "generation" THEN "Copy Text"
                                ELSE IF flow = "detection" THEN "Copy Results"
                                ELSE "Copy Summary",
                       copied |-> FALSE])
    /\ [][/\ copyBtn_then
               => /\ copyBtn' = [text |-> "(check) Copied!", copied |-> TRUE]
                  /\ Len(timers') = Len(timers) + 1
                  /\ timers'[Len(timers')] = 2000
          /\ Len(timers') < Len(timers)
               => /\ Head(timers) = 0
                  /\ ~copyBtn'.copied
                  /\ copyBtn'.text # "(check) Copied!"
          /\ copyBtn_denied => copyBtn' = copyBtn]_vars

\* the timer of a first copy has run while the timer of a second is pending,
\* and all timers have run after two copies
C5_Witness ==
    /\ Len(timers) = 1
    /\ timers[1] = 1000
    /\ ~copyBtn.copied
    /\ clipboard # <<>>

(* C6: on the detection page the colour of the confidence bar is decided by *)
(* the rounded confidence c alone: green for 0 <= c < 30, yellow for        *)
(* 30 <= c < 70, red for 70 <= c <= 100, whatever isAI is and whatever was  *)
(* rendered before.                                                         *)
C6_BarColorByConfidence ==
    flow = "detection" =>
      \A c \in 0..100 :
         dom["confidenceFill.width"] = <<ToString(c), "%">>
           => dom["confidenceFill.background"] =
                <<IF c < 30 THEN "#4ade80"
                  ELSE IF c < 70 THEN "#fbbf24"
                  ELSE "#ef4444">>

\* a human verdict rendered with confidence exactly 30 over an earlier render
C6_Witness ==
    /\ flow = "detection"
    /\ outcome = "done"
    /\ dom["confidenceFill.width"] = <<"30", "%">>
    /\ dom["confidenceFill.background"] = <<"#fbbf24">>
    /\ dom["verdict.color"] = <<"#4ade80">>

(* C7: at most one request is in flight, and while one is, every control    *)
(* that triggers the flow is disabled (clicks reach enabled controls only). *)
C7_OneInFlight ==
    /\ Len(inflight) <= 1
    /\ inflight # <<>> => AllDisabled

\* a request is awaiting its body with the controls disabled
C7_Witness ==
    /\ Len(inflight) = 1
    /\ inflight[1].pc = "json"
    /\ AllDisabled
    /\ inflight[1].prior.results

(* C8: while a dispatched request has not settled the loading indicator is  *)
(* shown and the controls are disabled, and nothing but its settling ends   *)
(* that; however it settles, the handler ends with the indicator hidden     *)
(* and the controls enabled.                                                *)
C8_SettledRestoresControls ==
    /\ [](inflight # <<>> => (loading = "block" /\ AllDisabled))
    /\ [][HandlerEnds => (loading' = "none" /\ AllEnabled')]_vars
    /\ [][(inflight # <<>> /\ ~HandlerEnds)
            => UNCHANGED <<loading, disabled>>]_vars

\* a request that settled by an exception while rendering
C8_Witness ==
    /\ outcome = "render-threw"
    /\ inflight = <<>>
    /\ loading = "none"
    /\ AllEnabled

(* C9: an audit write is attempted only at the end of a successful flow     *)
(* execution: one write per submission, by a handler that had an ok         *)
(* response and a parsed body and has rendered the results; none after a    *)
(* validation error, a non-success status or a network exception.           *)
C9_AuditOnlyAfterSuccess ==
    [][/\ dbAdds' # dbAdds /\ Len(dbAdds') >= Len(dbAdds)
            => /\ Len(dbAdds') = Len(dbAdds) + 1
               /\ \E i \in 1..Len(inflight) :
                     /\ Ending(i)
                     /\ inflight[i].pc = "json"
               /\ results'
               /\ LET r == Rendering(flow, dbAdds'[Len(dbAdds')].output)
                  IN ~r.threw /\ dom' = r.dom
       /\ ((SubmitStep \/ HandlerEnds)
             /\ outcome' \in {"invalid", "fetch-notok", "fetch-reject"})
            => dbAdds' = dbAdds]_vars

\* a write is pending after a rendered result
C9_Witness ==
    /\ dbAdds # <<>>
    /\ outcome = "done"
    /\ results
    /\ inflight = <<>>

(* C10 as stated: a submission that passed validation ends either in        *)
(* success (results panel shown, every result element set from the          *)
(* response, error not shown) or in failure (error shown, results panel     *)
(* not shown, no result element modified), never in a mixture.              *)
C10_NoMixedOutcome ==
    [][\A i \in 1..Len(inflight) :
          Ending(i)
            => \/ /\ results'
                  /\ ~errorMsg'.show
                  /\ \E d \in Data(flow) :
                        ~Rendering(flow, d).threw /\ dom' = Rendering(flow, d).dom
               \/ /\ errorMsg'.show
                  /\ ~results'
                  /\ dom' = inflight[i].prior.dom]_vars

====
